---- MODULE Spec2Model ----
(***************************************************************************)
(* Model of the WGPU-Engine voxel shape engine (entities/main_scene.rs),   *)
(* the AppWorld orchestrator (app/app_world/mod.rs) and the entity action  *)
(* protocol the MainScene entity takes part in.                            *)
(*                                                                         *)
(* Four specifications share the module:                                   *)
(*   SpecShape    - a Shape mutated by pipelines of process calls          *)
(*   SpecSolid    - one process call with a widely drawn Shapable          *)
(*   SpecAppWorld - AppWorld: spawn_*, call_updateables_*, call_renderables*)
(*   SpecWorld    - the update pass / apply step of the action protocol    *)
(***************************************************************************)
EXTENDS Integers, Sequences, FiniteSets, TLC

VARIABLES
    \* the Shape under construction (main_scene.rs)
    shape,      \* the Shape: min_x..max_z and map (key -> Voxel)
    instances,  \* Vec<StandardInstance> returned by the last make_instances on the current map
    trace,      \* the process calls made on the shape so far, with the map each one found
    ret,        \* what the last call on the shape was
    \* AppWorld and the Engine it renders into (app_world/mod.rs)
    objects,          \* Vec<Box<dyn Object>>
    only_updateable,  \* Vec<Box<dyn Updateable>>
    only_renderable,  \* Vec<Box<dyn Renderable>>
    engine,           \* the Engine's vertex buffer, index buffer and index count
    device,           \* buffers the device has created / that have been dropped
    op,               \* the AppWorld method that ran last
    calls,            \* the update invocations that method made, in order
    \* the World of the entity action protocol
    entities,   \* the entity registry
    pass        \* position of the running update pass and the actions it collected

shapeVars == <<shape, instances, trace, ret>>

appVars == <<objects, only_updateable, only_renderable, engine, device, op, calls>>

worldVars == <<entities, pass>>

vars == <<shapeVars, appVars, worldVars>>

----------------------------------------------------------------------------
(* Bounds of the model *)

\* longest pipeline of process calls on one Shape
MaxCalls == 3

\* largest width / height / depth / diameter drawn for a cube, and largest
\* sphere radius in halves
MaxDim == 4

\* most entities an AppWorld holds, over its three partitions
MaxEntities == 3

\* most entities the World's registry holds
MaxWorld == 3

\* centres and anchor points are drawn from -MaxCenter..MaxCenter on every axis
MaxCenter == 1

----------------------------------------------------------------------------
(* ShapeAction, main_scene.rs:47 *)

Additive == "Additive"
Subtractive == "Subtractive"
NoChange == "NoChange"

ShapeAction == {Additive, Subtractive, NoChange}

\* Rust's i32 `/`: truncates toward zero
RustDiv(a, b) == IF a >= 0 THEN a \div b ELSE -((-a) \div b)

----------------------------------------------------------------------------
(* Shapable predicates *)

\* Sphere::new.  The f32 radius is carried in halves (radius2 = 2 * radius),
\* so 1.5 is radius2 = 3; all values used are exact in f32.
Sphere_new(position, radius2) ==
    [kind |-> "Sphere", position |-> position, radius2 |-> radius2]

UniformCube_new(position, diameter) ==
    [kind |-> "UniformCube", position |-> position, diameter |-> diameter]

VariableCube_at_point(position, width, height, depth) ==
    [kind |-> "VariableCube", position |-> position,
     width |-> width, height |-> height, depth |-> depth]

\* mutant of at_center: anchors at the centre itself, as at_point does
VariableCube_at_center_noshift(position, width, height, depth) ==
    [kind |-> "VariableCube", position |-> position,
     width |-> width, height |-> height, depth |-> depth]

VariableCube_at_center(position, width, height, depth) ==
    [kind |-> "VariableCube",
     position |-> <<position[1] - RustDiv(width, 2),
                    position[2] - RustDiv(height, 2),
                    position[3] - RustDiv(depth, 2)>>,
     width |-> width, height |-> height, depth |-> depth]

\* distance(): despite its name, the SQUARED euclidean distance
distance(x1, y1, z1, x2, y2, z2) ==
    (x2 - x1) * (x2 - x1) + (y2 - y1) * (y2 - y1) + (z2 - z1) * (z2 - z1)

\* mutant of Sphere::work: the squared distance is compared with the radius itself
Sphere_work_unsquared(self, action, x, y, z) ==
    LET d == distance(self.position[1], self.position[2], self.position[3], x, y, z)
    IN  IF 2 * d <= self.radius2 THEN action ELSE NoChange

\* Sphere::work: distance <= radius.pow(2.0), in quarters: 4*d <= radius2^2
Sphere_work(self, action, x, y, z) ==
    LET d == distance(self.position[1], self.position[2], self.position[3], x, y, z)
        radius_squared4 == self.radius2 * self.radius2
    IN  IF 4 * d <= radius_squared4 THEN action ELSE NoChange

\* mutant of UniformCube::work: half-width diameter instead of diameter - 1
UniformCube_work_wide(self, action, x, y, z) ==
    IF /\ x >= self.position[1] - self.diameter
       /\ x <= self.position[1] + self.diameter
       /\ y >= self.position[2] - self.diameter
       /\ y <= self.position[2] + self.diameter
       /\ z >= self.position[3] - self.diameter
       /\ z <= self.position[3] + self.diameter
    THEN action ELSE NoChange

UniformCube_work(self, action, x, y, z) ==
    IF /\ x >= self.position[1] - (self.diameter - 1)
       /\ x <= self.position[1] + self.diameter - 1
       /\ y >= self.position[2] - (self.diameter - 1)
       /\ y <= self.position[2] + self.diameter - 1
       /\ z >= self.position[3] - (self.diameter - 1)
       /\ z <= self.position[3] + self.diameter - 1
    THEN action ELSE NoChange

VariableCube_work(self, action, x, y, z) ==
    IF /\ x >= self.position[1]
       /\ x <= self.position[1] + (self.width - 1)
       /\ y >= self.position[2]
       /\ y <= self.position[2] + (self.height - 1)
       /\ z >= self.position[3]
       /\ z <= self.position[3] + (self.depth - 1)
    THEN action ELSE NoChange

\* Shapable::work, dispatched on the implementing type
work(self, action, x, y, z) ==
    CASE self.kind = "Sphere"       -> Sphere_work(self, action, x, y, z)
      [] self.kind = "UniformCube"  -> UniformCube_work(self, action, x, y, z)
      [] self.kind = "VariableCube" -> VariableCube_work(self, action, x, y, z)

\* A constructor call as the caller writes it
Build(e) ==
    CASE e.ctor = "Sphere::new" -> Sphere_new(e.position, e.radius2)
      [] e.ctor = "UniformCube::new" -> UniformCube_new(e.position, e.diameter)
      [] e.ctor = "VariableCube::at_point" ->
            VariableCube_at_point(e.position, e.width, e.height, e.depth)
      [] e.ctor = "VariableCube::at_center" ->
            VariableCube_at_center(e.position, e.width, e.height, e.depth)

----------------------------------------------------------------------------
(* Shape *)

Shape_new(min_x, min_y, min_z, max_x, max_y, max_z) ==
    [min_x |-> min_x, min_y |-> min_y, min_z |-> min_z,
     max_x |-> max_x, max_y |-> max_y, max_z |-> max_z,
     map |-> <<>>]

\* mutant of the range test: the inclusive range lo..=hi
InRange_inclusive(v, hi) == v <= hi

\* `for v in lo..hi`: v starts at lo and the body runs while v < hi
InRange(v, hi) == v < hi

\* HashMap::insert / HashMap::remove / HashMap::get(..).is_some()
MapInsert(map, k, v) == [c \in (DOMAIN map) \cup {k} |-> IF c = k THEN v ELSE map[c]]
MapRemove(map, k) == [c \in (DOMAIN map) \ {k} |-> map[c]]
MapHas(map, k) == k \in DOMAIN map

\* mutant of the loop body: the Subtractive arm removes nothing
ProcessCell_keep(map, shapeable, action, c) ==
    LET eff == work(shapeable, action, c[1], c[2], c[3])
    IN  IF eff = Additive THEN MapInsert(map, c, [position |-> c]) ELSE map

\* the body of process's innermost loop at coordinate c
ProcessCell(map, shapeable, action, c) ==
    LET eff == work(shapeable, action, c[1], c[2], c[3])
    IN  CASE eff = Additive    -> MapInsert(map, c, [position |-> c])
          [] eff = Subtractive -> MapRemove(map, c)
          [] eff = NoChange    -> map

\* The three nested loops of process, innermost first.  In each, both arms
\* of the inner IF carry the same map on: the comparison only makes TLC
\* finish this iteration before it starts the next one.
RECURSIVE ProcessZ(_, _, _, _, _, _, _)
ProcessZ(map, s, shapeable, action, x, y, z) ==
    IF ~InRange(z, s.max_z) THEN map
    ELSE LET next == ProcessCell(map, shapeable, action, <<x, y, z>>)
         IN  IF next = map
             THEN ProcessZ(map, s, shapeable, action, x, y, z + 1)
             ELSE ProcessZ(next, s, shapeable, action, x, y, z + 1)

RECURSIVE ProcessY(_, _, _, _, _, _)
ProcessY(map, s, shapeable, action, x, y) ==
    IF ~InRange(y, s.max_y) THEN map
    ELSE LET next == ProcessZ(map, s, shapeable, action, x, y, s.min_z)
         IN  IF next = map
             THEN ProcessY(map, s, shapeable, action, x, y + 1)
             ELSE ProcessY(next, s, shapeable, action, x, y + 1)

RECURSIVE ProcessX(_, _, _, _, _)
ProcessX(map, s, shapeable, action, x) ==
    IF ~InRange(x, s.max_x) THEN map
    ELSE LET next == ProcessY(map, s, shapeable, action, x, s.min_y)
         IN  IF next = map
             THEN ProcessX(map, s, shapeable, action, x + 1)
             ELSE ProcessX(next, s, shapeable, action, x + 1)

\* Shape::process
process(s, action, shapeable) ==
    [s EXCEPT !.map = ProcessX(s.map, s, shapeable, action, s.min_x)]

\* Voxel::to_instance: position cast to f32 (exact here), zero quaternion
to_instance(voxel) == [position |-> voxel.position, rotation |-> <<0, 0, 0, 0>>]

\* the six neighbour lookups and the counter of make_instances
NeighbourCounter(map, x, y, z) ==
    LET b(k) == IF MapHas(map, k) THEN 1 ELSE 0
    IN  b(<<x + 1, y, z>>) + b(<<x - 1, y, z>>)
      + b(<<x, y + 1, z>>) + b(<<x, y - 1, z>>)
      + b(<<x, y, z + 1>>) + b(<<x, y, z - 1>>)

\* mutant of the culling test: counter <= 6 keeps enclosed voxels
Exposed_all(map, x, y, z) == NeighbourCounter(map, x, y, z) <= 6

\* `if counter <= 5`
Exposed(map, x, y, z) == NeighbourCounter(map, x, y, z) <= 5

\* the body of make_instances's innermost loop at (x, y, z)
InstancesCell(acc, map, x, y, z) ==
    IF ~MapHas(map, <<x, y, z>>) THEN acc
    ELSE IF Exposed(map, x, y, z)
         THEN Append(acc, to_instance(map[<<x, y, z>>]))
         ELSE acc

\* The three nested loops of make_instances, innermost first; the comparisons
\* again only sequence the evaluation.
RECURSIVE InstancesZ(_, _, _, _, _)
InstancesZ(acc, s, x, y, z) ==
    IF ~InRange(z, s.max_z) THEN acc
    ELSE LET next == InstancesCell(acc, s.map, x, y, z)
         IN  IF next = acc
             THEN InstancesZ(acc, s, x, y, z + 1)
             ELSE InstancesZ(next, s, x, y, z + 1)

RECURSIVE InstancesY(_, _, _, _)
InstancesY(acc, s, x, y) ==
    IF ~InRange(y, s.max_y) THEN acc
    ELSE LET next == InstancesZ(acc, s, x, y, s.min_z)
         IN  IF next = acc
             THEN InstancesY(acc, s, x, y + 1)
             ELSE InstancesY(next, s, x, y + 1)

RECURSIVE InstancesX(_, _, _)
InstancesX(acc, s, x) ==
    IF ~InRange(x, s.max_x) THEN acc
    ELSE LET next == InstancesY(acc, s, x, s.min_y)
         IN  IF next = acc
             THEN InstancesX(acc, s, x + 1)
             ELSE InstancesX(next, s, x + 1)

\* Shape::make_instances
make_instances(s) == InstancesX(<<>>, s, s.min_x)

----------------------------------------------------------------------------
(* Inputs *)

\* Bounding regions handed to Shape::new: the region of the sphere scenario,
\* an uneven region, and one with min_x > max_x
ShapeBounds ==
    { <<-2, -2, -2, 2, 2, 2>>, <<-1, -2, 0, 2, 1, 2>>, <<2, -2, -2, -2, 2, 2>> }

PipelineBounds == { <<-2, -2, -2, 2, 2, 2>>, <<2, -2, -2, -2, 2, 2>> }

Centers == (-MaxCenter..MaxCenter) \X (-MaxCenter..MaxCenter) \X (-MaxCenter..MaxCenter)

\* the Shapables of the pipelines
PipelineArgs ==
    { [ctor |-> "Sphere::new", position |-> <<0, 0, 0>>, radius2 |-> 3],
      [ctor |-> "UniformCube::new", position |-> <<0, 0, 0>>, diameter |-> 2],
      [ctor |-> "UniformCube::new", position |-> <<-2, -2, -2>>, diameter |-> 1],
      [ctor |-> "VariableCube::at_point", position |-> <<-2, 0, -2>>,
       width |-> 4, height |-> 4, depth |-> 4] }

\* anchors and centres of the boxes of the single-call specification
BoxPoints == { <<0, 0, 0>>, <<-1, 0, 1>> }

\* the Shapables of the single-call specification
SolidArgs ==
    [ctor : {"Sphere::new"}, position : Centers, radius2 : 0..MaxDim]
    \cup [ctor : {"UniformCube::new"}, position : Centers, diameter : 0..MaxDim]
    \cup [ctor : {"VariableCube::at_point", "VariableCube::at_center"},
          position : BoxPoints,
          width : 0..MaxDim, height : 0..MaxDim, depth : 0..MaxDim]

----------------------------------------------------------------------------
(* Actions on the Shape *)

\* Option<T>: None is the empty sequence, Some(x) the sequence of x alone
None == <<>>
Some(x) == <<x>>

NewShape(b) == Shape_new(b[1], b[2], b[3], b[4], b[5], b[6])

\* no Shape is being built
NoShape ==
    /\ shape = NewShape(<<0, 0, 0, 0, 0, 0>>)
    /\ instances = <<>>
    /\ trace = <<>>
    /\ ret = "new"

\* AppWorld::new, and an Engine without buffers
NewAppWorld ==
    /\ objects = <<>>
    /\ only_updateable = <<>>
    /\ only_renderable = <<>>
    /\ engine = [vertex_buffer |-> None, index_buffer |-> None, index_count |-> 0]
    /\ device = [created |-> 0, dropped |-> 0]
    /\ op = "new"
    /\ calls = <<>>

\* World::new
NewWorld ==
    /\ entities = <<>>
    /\ pass = [pos |-> 0, pending |-> <<>>]

InitShape(B) ==
    /\ shape \in {NewShape(b) : b \in B}
    /\ instances = <<>>
    /\ trace = <<>>
    /\ ret = "new"
    /\ NewAppWorld
    /\ NewWorld

\* shape.process(action, e)
Process(action, e) ==
    /\ shape' = process(shape, action, Build(e))
    /\ trace' = Append(trace, [action |-> action, arg |-> e, before |-> shape.map])
    /\ instances' = <<>>
    /\ ret' = "process"
    /\ UNCHANGED <<appVars, worldVars>>

\* shape.make_instances()
MakeInstances ==
    /\ ret # "make_instances"
    /\ instances' = make_instances(shape)
    /\ ret' = "make_instances"
    /\ UNCHANGED <<shape, trace, appVars, worldVars>>

PipelineStep ==
    /\ Len(trace) < MaxCalls
    /\ \E action \in ShapeAction, e \in PipelineArgs : Process(action, e)

SolidStep ==
    /\ Len(trace) < 1
    /\ \E action \in ShapeAction, e \in SolidArgs : Process(action, e)

NextShape == PipelineStep \/ MakeInstances

NextSolid == SolidStep \/ MakeInstances

SpecShape == InitShape(PipelineBounds) /\ [][NextShape]_vars

SpecSolid == InitShape(ShapeBounds) /\ [][NextSolid]_vars

----------------------------------------------------------------------------
(* AppWorld, app_world/mod.rs *)

\* Geometry an entity hands out through vertices() / indices()
Meshes ==
    { [vertices |-> <<1, 2, 3>>, indices |-> <<0, 1, 2>>],
      [vertices |-> <<4, 5, 6, 7>>, indices |-> <<0, 1, 2, 2, 3, 0>>] }

UpdateFrequencies == {"OnSecond", "OnCycle"}

\* Implementors of the Object, Updateable and Renderable traits, by what
\* their trait methods answer
Objects ==
    {[update_frequency |-> f, do_render |-> r, vertices |-> m.vertices, indices |-> m.indices] :
        f \in UpdateFrequencies, r \in BOOLEAN, m \in Meshes}

Updateables == {[update_frequency |-> f] : f \in UpdateFrequencies}

Renderables ==
    {[do_render |-> r, vertices |-> m.vertices, indices |-> m.indices] :
        r \in BOOLEAN, m \in Meshes}

\* AppWorld::count_object / count_updateable / count_renderable
count_object == Len(objects)
count_updateable == Len(only_updateable)
count_renderable == Len(only_renderable)

\* Engine facade
has_vertex_buffer(e) == e.vertex_buffer # None
set_vertex_buffer(e, buffer) == [e EXCEPT !.vertex_buffer = Some(buffer)]
set_index_buffer(e, buffer, index_num) ==
    [e EXCEPT !.index_buffer = Some(buffer), !.index_count = index_num]

\* device.create_buffer_init(&BufferInitDescriptor { label, contents, usage });
\* id numbers the buffers in the order the device creates them
create_buffer_init(id, label, contents, usage) ==
    [id |-> id, label |-> label, contents |-> contents, usage |-> usage]

\* `indices.len() as u32`: the length modulo 2^32.  Every length TLC can
\* represent is below 2^31, where the cast keeps the value.
AsU32(n) == n

\* a panic unwinds out of the frame loop: nothing runs after it
Running == op # "panic"

Idle(operation) == /\ op' = operation
                   /\ calls' = <<>>

\* AppWorld::spawn_object
SpawnObject(object) ==
    /\ Running
    /\ count_object + count_updateable + count_renderable < MaxEntities
    /\ objects' = Append(objects, object)
    /\ Idle("spawn_object")
    /\ UNCHANGED <<only_updateable, only_renderable, engine, device, shapeVars, worldVars>>

\* AppWorld::spawn_updateable
SpawnUpdateable(updateable) ==
    /\ Running
    /\ count_object + count_updateable + count_renderable < MaxEntities
    /\ only_updateable' = Append(only_updateable, updateable)
    /\ Idle("spawn_updateable")
    /\ UNCHANGED <<objects, only_renderable, engine, device, shapeVars, worldVars>>

\* AppWorld::spawn_renderable
SpawnRenderable(renderable) ==
    /\ Running
    /\ count_object + count_updateable + count_renderable < MaxEntities
    /\ only_renderable' = Append(only_renderable, renderable)
    /\ Idle("spawn_renderable")
    /\ UNCHANGED <<objects, only_updateable, engine, device, shapeVars, worldVars>>

\* iter_mut().filter(|x| x.update_frequency() == frequency).for_each(|x| x.update(..))
\* over one partition: the update calls made, as <<partition, index>>
UpdatesIn(partition, seq, frequency) ==
    LET Due(i) == seq[i].update_frequency = frequency
    IN  [k \in 1..Len(SelectSeq([i \in 1..Len(seq) |-> i], Due)) |->
            <<partition, SelectSeq([i \in 1..Len(seq) |-> i], Due)[k]>>]

\* the body shared by call_updateables_on_second and call_updateables_on_cycle
CallUpdateables(operation, frequency) ==
    /\ Running
    /\ calls' = UpdatesIn("only_updateable", only_updateable, frequency)
                \o UpdatesIn("objects", objects, frequency)
    /\ op' = operation
    /\ UNCHANGED <<objects, only_updateable, only_renderable, engine, device,
                   shapeVars, worldVars>>

\* AppWorld::call_updateables_on_second
CallUpdateablesOnSecond == CallUpdateables("call_updateables_on_second", "OnSecond")

\* mutant of call_updateables_on_cycle: the filter of the on-second method
CallUpdateablesOnCycle_second == CallUpdateables("call_updateables_on_cycle", "OnSecond")

\* AppWorld::call_updateables_on_cycle
CallUpdateablesOnCycle == CallUpdateables("call_updateables_on_cycle", "OnCycle")

DoRender(x) == x.do_render

\* .filter(|x| x.do_render()).map(|x| (x.vertices(), x.indices())) over the
\* pure renderables, chained with the same over the objects
Geometry ==
    LET r == SelectSeq(only_renderable, DoRender)
        o == SelectSeq(objects, DoRender)
    IN  [i \in 1..Len(r) |-> <<r[i].vertices, r[i].indices>>]
        \o [i \in 1..Len(o) |-> <<o[i].vertices, o[i].indices>>]

\* .map(|(vertices, indices)| { .. (vertex_buffer, index_buffer, indices_num) }).collect()
MakeBuffers(geometry, created) ==
    [i \in 1..Len(geometry) |->
        <<create_buffer_init(created + 2 * i - 1, "Vertex Buffer", geometry[i][1], "VERTEX"),
          create_buffer_init(created + 2 * i, "Vertex Buffer", geometry[i][2], "INDEX"),
          AsU32(Len(geometry[i][2]))>>]

\* mutant of the pop: the first buffer set is taken
PopFirst(buffers) == IF buffers = <<>> THEN None ELSE Some(buffers[1])

\* Vec::pop: the last element, or None on an empty Vec
Pop(buffers) == IF buffers = <<>> THEN None ELSE Some(buffers[Len(buffers)])

\* lines 84..127 of call_renderables: build every buffer, bind the last;
\* .expect("got no vertex buffers") panics on None
BuildAndBind ==
    LET buffers == MakeBuffers(Geometry, device.created)
    IN  IF buffers # <<>>
        THEN LET popped == Pop(buffers)
             IN  IF popped = None
                 THEN /\ op' = "panic"
                      /\ UNCHANGED <<engine, device>>
                 ELSE /\ engine' = set_index_buffer(set_vertex_buffer(engine, popped[1][1]),
                                                    popped[1][2], popped[1][3])
                      /\ device' = [created |-> device.created + 2 * Len(buffers),
                                    dropped |-> device.dropped + 2 * (Len(buffers) - 1)]
                      /\ op' = "call_renderables"
        ELSE /\ UNCHANGED <<engine, device>>
             /\ op' = "call_renderables"

\* mutant of call_renderables: no early return when a vertex buffer exists
CallRenderables_rebuild ==
    /\ Running
    /\ BuildAndBind
    /\ calls' = <<>>
    /\ UNCHANGED <<objects, only_updateable, only_renderable, shapeVars, worldVars>>

\* AppWorld::call_renderables
CallRenderables ==
    /\ Running
    /\ IF has_vertex_buffer(engine)
       THEN /\ UNCHANGED <<engine, device>>
            /\ op' = "call_renderables"
       ELSE BuildAndBind
    /\ calls' = <<>>
    /\ UNCHANGED <<objects, only_updateable, only_renderable, shapeVars, worldVars>>

InitAppWorld == NoShape /\ NewAppWorld /\ NewWorld

NextAppWorld ==
    \/ \E object \in Objects : SpawnObject(object)
    \/ \E updateable \in Updateables : SpawnUpdateable(updateable)
    \/ \E renderable \in Renderables : SpawnRenderable(renderable)
    \/ CallUpdateablesOnSecond
    \/ CallUpdateablesOnCycle
    \/ CallRenderables

SpecAppWorld == InitAppWorld /\ [][NextAppWorld]_vars

----------------------------------------------------------------------------
(* The entity action protocol: entities, their update, and the World that
   runs the fast update pass and applies the returned actions *)

\* EntityAction::Remove(tags) / EntityAction::Spawn(entities)
Remove(tags) == [type |-> "Remove", tags |-> tags]
Spawn(new) == [type |-> "Spawn", entities |-> new]

\* EntityConfiguration::new(tag, update_frequency, do_render)
EntityConfiguration(tag, update_frequency, do_render) ==
    [tag |-> tag, update_frequency |-> update_frequency, do_render |-> do_render]

\* an entity value; origin tells an entity the application added from one an
\* action spawned
Entity(kind, origin) == [kind |-> kind, origin |-> origin]

\* MainScene::TAG, Cube::TAG
MainScene_TAG == "MainScene"
Cube_TAG == "Cube"

\* MainScene::entity_configuration
MainScene_entity_configuration == EntityConfiguration(MainScene_TAG, "Fast", FALSE)

\* Cube::entity_configuration
Cube_entity_configuration == EntityConfiguration(Cube_TAG, "None", TRUE)

\* TEntity::entity_configuration of each entity: of MainScene and Cube, of the
\* Cheese that MainScene spawns, and of the entities A and B of the replace
\* scenario (B carries the tag "A")
entity_configuration(e) ==
    CASE e.kind = "MainScene" -> MainScene_entity_configuration
      [] e.kind = "Cube"      -> Cube_entity_configuration
      [] e.kind = "Cheese"    -> EntityConfiguration("Cheese", "None", TRUE)
      [] e.kind = "A"         -> EntityConfiguration("A", "Fast", FALSE)
      [] e.kind = "B"         -> EntityConfiguration("A", "None", FALSE)

\* mutant of MainScene::update: the Spawn is returned before the Remove
MainScene_update_spawn_first ==
    << Spawn(<<Entity("Cheese", "spawned")>>), Remove(<<MainScene_TAG>>) >>

\* MainScene::update: builds the shape, wraps its instances in a Cheese and
\* returns vec![Remove(vec![TAG]), Spawn(vec![cheese])].  The instance list
\* inside the Cheese is the result of the Shape pipeline that SpecShape
\* models; the registry does not read it and it is not carried here.
MainScene_update ==
    << Remove(<<MainScene_TAG>>), Spawn(<<Entity("Cheese", "spawned")>>) >>

\* TEntity::update of each entity
update(e) ==
    CASE e.kind = "MainScene" -> MainScene_update
      [] e.kind = "A" -> << Remove(<<"A">>), Spawn(<<Entity("B", "spawned")>>) >>
      [] OTHER -> <<>>

\* the entities the application adds before a frame
AddedEntities == {Entity(k, "added") : k \in {"MainScene", "Cube", "A"}}

RECURSIVE RemovedTags(_)
RemovedTags(actions) ==
    IF actions = <<>> THEN {}
    ELSE (IF Head(actions).type = "Remove"
          THEN {Head(actions).tags[i] : i \in 1..Len(Head(actions).tags)}
          ELSE {})
         \cup RemovedTags(Tail(actions))

RECURSIVE SpawnedEntities(_)
SpawnedEntities(actions) ==
    IF actions = <<>> THEN <<>>
    ELSE (IF Head(actions).type = "Spawn" THEN Head(actions).entities ELSE <<>>)
         \o SpawnedEntities(Tail(actions))

\* the two-phase apply: every removal of the batch, then every spawn
ApplyBatch(registry, actions) ==
    LET Kept(e) == entity_configuration(e).tag \notin RemovedTags(actions)
    IN  SelectSeq(registry, Kept) \o SpawnedEntities(actions)

\* World::add_entity, between passes
AddEntity(e) ==
    /\ pass.pos = 0
    /\ Len(entities) < MaxWorld
    /\ entities' = Append(entities, e)
    /\ UNCHANGED <<pass, shapeVars, appVars>>

\* the fast-cadence pass starts
BeginPass ==
    /\ pass.pos = 0
    /\ entities # <<>>
    /\ pass' = [pos |-> 1, pending |-> <<>>]
    /\ UNCHANGED <<entities, shapeVars, appVars>>

\* the pass visits the next entity and, if its frequency is Fast, calls its
\* update and collects the actions it returns
UpdateNext ==
    /\ pass.pos \in 1..Len(entities)
    /\ LET e == entities[pass.pos]
       IN  pass' = [pos |-> pass.pos + 1,
                    pending |-> IF entity_configuration(e).update_frequency = "Fast"
                                THEN pass.pending \o update(e)
                                ELSE pass.pending]
    /\ UNCHANGED <<entities, shapeVars, appVars>>

\* the pass is over: its actions are applied as one batch
ApplyActions ==
    /\ pass.pos = Len(entities) + 1
    /\ entities' = ApplyBatch(entities, pass.pending)
    /\ pass' = [pos |-> 0, pending |-> <<>>]
    /\ UNCHANGED <<shapeVars, appVars>>

InitWorld == NoShape /\ NewAppWorld /\ NewWorld

NextWorld ==
    \/ \E e \in AddedEntities : AddEntity(e)
    \/ BeginPass
    \/ UpdateNext
    \/ ApplyActions

SpecWorld == InitWorld /\ [][NextWorld]_vars

----------------------------------------------------------------------------
(* Vocabulary of the properties of the Shape *)

\* the bounding region [min, max) of a Shape, as a set of coordinates
Region(s) ==
    {c \in (s.min_x..(s.max_x - 1)) \X (s.min_y..(s.max_y - 1)) \X (s.min_z..(s.max_z - 1)) : TRUE}

Inverted(s) == s.min_x > s.max_x \/ s.min_y > s.max_y \/ s.min_z > s.max_z

FaceNeighbours(c) ==
    { <<c[1] + 1, c[2], c[3]>>, <<c[1] - 1, c[2], c[3]>>,
      <<c[1], c[2] + 1, c[3]>>, <<c[1], c[2] - 1, c[3]>>,
      <<c[1], c[2], c[3] + 1>>, <<c[1], c[2], c[3] - 1>> }

Occupied(map) == DOMAIN map

OccupiedNeighbours(map, c) == Cardinality(FaceNeighbours(c) \cap Occupied(map))

InstancePositions == {instances[i].position : i \in 1..Len(instances)}

\* the coordinates a Shapable selects: where it passes the requested action on
Footprint(e, c) == work(Build(e), Additive, c[1], c[2], c[3]) = Additive

\* the map the i-th process call of the trace left behind
MapAfter(i) == IF i < Len(trace) THEN trace[i + 1].before ELSE shape.map

Abs(n) == IF n < 0 THEN -n ELSE n

----------------------------------------------------------------------------
\* C1: whenever make_instances has returned, its output holds exactly one
\* instance per occupied voxel with at most 5 of its 6 face-neighbours
\* occupied, at that voxel's position, and nothing else: a voxel with 6
\* occupied neighbours is never emitted, one with 0 always is.
C1_CullExposed ==
    ret = "make_instances" =>
        /\ \A i, j \in 1..Len(instances) :
              instances[i].position = instances[j].position => i = j
        /\ InstancePositions =
              {c \in Occupied(shape.map) : OccupiedNeighbours(shape.map, c) <= 5}
        /\ \A c \in Occupied(shape.map) :
              /\ OccupiedNeighbours(shape.map, c) = 6 => c \notin InstancePositions
              /\ OccupiedNeighbours(shape.map, c) = 0 => c \in InstancePositions

\* make_instances ran on a map holding both an enclosed and an isolated voxel
C1_Witness ==
    /\ ret = "make_instances"
    /\ \E c \in Occupied(shape.map) : OccupiedNeighbours(shape.map, c) = 6
    /\ \E c \in Occupied(shape.map) : OccupiedNeighbours(shape.map, c) = 0
    /\ Len(instances) > 1

----------------------------------------------------------------------------
\* C3: after any sequence of process calls every key of the voxel map lies in
\* the bounding region [min, max) on all three axes, and the Voxel stored
\* under a key has that key as its position.
C3_KeysInRegion ==
    \A k \in Occupied(shape.map) :
        /\ shape.min_x <= k[1] /\ k[1] < shape.max_x
        /\ shape.min_y <= k[2] /\ k[2] < shape.max_y
        /\ shape.min_z <= k[3] /\ k[3] < shape.max_z
        /\ shape.map[k].position = k

\* a footprint reaching past the region was added, and a voxel sits on the
\* last row of the region
C3_Witness ==
    /\ Len(trace) >= 2
    /\ \E i \in 1..Len(trace) :
          /\ trace[i].action = Additive
          /\ Footprint(trace[i].arg, <<shape.min_x, shape.max_y, shape.min_z>>)
    /\ \E k \in Occupied(shape.map) : k[2] = shape.max_y - 1

----------------------------------------------------------------------------
\* C4: whenever process(Additive, S) was directly followed by
\* process(Subtractive, S) with the same S, then after the second call no
\* cell of S's footprint is occupied, and every cell outside the footprint is
\* occupied exactly if it was before the first call.
C4_CarveAfterAdd ==
    \A i \in 1..(Len(trace) - 1) :
        ( /\ trace[i].action = Additive
          /\ trace[i + 1].action = Subtractive
          /\ trace[i + 1].arg = trace[i].arg )
        => LET before == trace[i].before
               after == MapAfter(i + 1)
               cells == Region(shape) \cup Occupied(before) \cup Occupied(after)
           IN  \A c \in cells :
                  IF Footprint(trace[i].arg, c)
                  THEN c \notin Occupied(after)
                  ELSE (c \in Occupied(after)) <=> (c \in Occupied(before))

\* an add-then-carve pair ran on a map that already held voxels inside and
\* outside the footprint
C4_Witness ==
    \E i \in 1..(Len(trace) - 1) :
        /\ trace[i].action = Additive
        /\ trace[i + 1].action = Subtractive
        /\ trace[i + 1].arg = trace[i].arg
        /\ \E c \in Occupied(trace[i].before) : Footprint(trace[i].arg, c)
        /\ \E c \in Occupied(trace[i].before) : ~Footprint(trace[i].arg, c)
        /\ Occupied(MapAfter(i + 1)) # {}

----------------------------------------------------------------------------
(* The sphere scenario: bounds (-2,-2,-2)..(2,2,2), Additive Sphere((0,0,0), 1.5) *)

SphereScenario ==
    /\ shape.min_x = -2 /\ shape.min_y = -2 /\ shape.min_z = -2
    /\ shape.max_x = 2 /\ shape.max_y = 2 /\ shape.max_z = 2
    /\ Len(trace) = 1
    /\ trace[1].action = Additive
    /\ trace[1].arg = [ctor |-> "Sphere::new", position |-> <<0, 0, 0>>, radius2 |-> 3]

NonZero(c) == Cardinality({i \in 1..3 : c[i] # 0})

Unit3 == {-1, 0, 1} \X {-1, 0, 1} \X {-1, 0, 1}

\* the origin and the six cells one step along an axis
PlusCross == {c \in Unit3 : NonZero(c) <= 1}

\* the plus cross and the twelve cells one step along two axes
Ball19 == {c \in Unit3 : NonZero(c) <= 2}

\* C5 as stated: the scenario leaves exactly the 7 cells of the plus cross,
\* and make_instances emits all 7.
C5_Original ==
    SphereScenario =>
        /\ Occupied(shape.map) = PlusCross
        /\ ret = "make_instances" => InstancePositions = PlusCross

\* C5 amended: the scenario leaves exactly the 19 cells at squared distance
\* <= 2.25 (origin, 6 axis cells, 12 edge cells), and make_instances emits
\* the 18 of them other than the origin, whose 6 neighbours are all occupied.
C5_Sphere19 ==
    SphereScenario =>
        /\ Occupied(shape.map) = Ball19
        /\ ret = "make_instances" =>
              /\ InstancePositions = Ball19 \ {<<0, 0, 0>>}
              /\ Len(instances) = 18

C5_Witness ==
    /\ SphereScenario
    /\ ret = "make_instances"
    /\ Len(instances) = 18

----------------------------------------------------------------------------
\* C6: a Shape with inverted bounds (min > max on some axis) is rejected at
\* construction, so no process or make_instances call ever returns on one.
C6_InvertedRejected ==
    Inverted(shape) => ret \notin {"process", "make_instances"}

----------------------------------------------------------------------------
\* C7: on an empty Shape, process(Additive, UniformCube::new(c, d)) leaves
\* exactly the cells of the region within d-1 of c on every axis; for
\* c = (0,0,0), d = 1 and a region containing the origin that is the single
\* cell (0,0,0).
C7_UniformCube ==
    ( /\ Len(trace) = 1
      /\ trace[1].action = Additive
      /\ trace[1].arg.ctor = "UniformCube::new" )
    => LET c == trace[1].arg.position
           d == trace[1].arg.diameter
       IN  /\ Occupied(shape.map) =
                {k \in Region(shape) : \A a \in 1..3 : Abs(k[a] - c[a]) <= d - 1}
           /\ (c = <<0, 0, 0>> /\ d = 1 /\ <<0, 0, 0>> \in Region(shape))
                 => Occupied(shape.map) = {<<0, 0, 0>>}

C7_Witness ==
    /\ Len(trace) = 1
    /\ trace[1].action = Additive
    /\ trace[1].arg = [ctor |-> "UniformCube::new", position |-> <<0, 0, 0>>, diameter |-> 1]
    /\ Occupied(shape.map) = {<<0, 0, 0>>}

----------------------------------------------------------------------------
(* The box of VariableCube::at_center, read off the map it fills *)

Dim(e, a) == CASE a = 1 -> e.width [] a = 2 -> e.height [] a = 3 -> e.depth

\* one Additive at_center call with positive dimensions, on an empty Shape
\* whose region holds the whole box: all width * height * depth cells are in
\* the map
CenteredBoxAdded ==
    /\ Len(trace) = 1
    /\ trace[1].action = Additive
    /\ trace[1].arg.ctor = "VariableCube::at_center"
    /\ \A a \in 1..3 : Dim(trace[1].arg, a) >= 1
    /\ Cardinality(Occupied(shape.map)) =
          trace[1].arg.width * trace[1].arg.height * trace[1].arg.depth

\* how far the occupied cells reach below / above the centre on axis a
Below(a) ==
    LET lo == CHOOSE v \in {k[a] : k \in Occupied(shape.map)} :
                 \A k \in Occupied(shape.map) : v <= k[a]
    IN  trace[1].arg.position[a] - lo

Above(a) ==
    LET hi == CHOOSE v \in {k[a] : k \in Occupied(shape.map)} :
                 \A k \in Occupied(shape.map) : v >= k[a]
    IN  hi - trace[1].arg.position[a]

\* C10 as stated: the box starts at c - dim/2 (integer division) on each axis
\* and, for an odd dimension, reaches further below the centre than above it.
C10_Original ==
    CenteredBoxAdded =>
        \A a \in 1..3 :
            /\ Below(a) = RustDiv(Dim(trace[1].arg, a), 2)
            /\ Dim(trace[1].arg, a) % 2 = 1 => Below(a) > Above(a)

\* C10 amended: the box starts at c - dim/2 (integer division) on each axis and
\* spans dim cells; for an even dimension it reaches one cell further below the
\* centre than above it, for an odd dimension equally far on both sides.
C10_CenterBias ==
    CenteredBoxAdded =>
        \A a \in 1..3 :
            /\ Below(a) = RustDiv(Dim(trace[1].arg, a), 2)
            /\ Below(a) + Above(a) + 1 = Dim(trace[1].arg, a)
            /\ Dim(trace[1].arg, a) % 2 = 0 => Below(a) = Above(a) + 1
            /\ Dim(trace[1].arg, a) % 2 = 1 => Below(a) = Above(a)

\* a centred box with an odd and an even dimension was added
C10_Witness ==
    /\ CenteredBoxAdded
    /\ trace[1].arg.width = 3
    /\ trace[1].arg.height = 2
    /\ trace[1].arg.depth = 1

----------------------------------------------------------------------------
(* Vocabulary of the properties of AppWorld *)

\* the entities reporting do_render, pure renderables first, then objects
Rendering == SelectSeq(only_renderable, DoRender) \o SelectSeq(objects, DoRender)

----------------------------------------------------------------------------
\* C8: once the engine holds a vertex buffer, no step - no call_renderables,
\* whatever was spawned in between - changes the engine's vertex buffer, index
\* buffer or index count, or has the device create a buffer.
C8_BuildOnce ==
    [][has_vertex_buffer(engine) => (engine' = engine /\ device' = device)]_vars

\* call_renderables returned with buffers bound that are not those of the
\* last rendering entity: that entity was spawned after the build
C8_Witness ==
    /\ op = "call_renderables"
    /\ has_vertex_buffer(engine)
    /\ Len(Rendering) >= 2
    /\ engine.vertex_buffer[1].contents # Rendering[Len(Rendering)].vertices

----------------------------------------------------------------------------
\* C9: a call_renderables that finds the engine without a vertex buffer binds
\* the vertex and index contents of the last rendering entity (pure
\* renderables first, then objects) with its number of indices as index
\* count, creates two buffers per rendering entity and drops all but the
\* bound pair; with no rendering entity it binds and creates nothing; it
\* never panics.
C9_LastBufferWins ==
    [][(op' \in {"call_renderables", "panic"} /\ ~has_vertex_buffer(engine)) =>
          IF Rendering = <<>>
          THEN engine' = engine /\ device' = device /\ op' # "panic"
          ELSE LET last == Rendering[Len(Rendering)]
               IN  /\ op' # "panic"
                   /\ engine'.vertex_buffer[1].contents = last.vertices
                   /\ engine'.vertex_buffer[1].usage = "VERTEX"
                   /\ engine'.index_buffer[1].contents = last.indices
                   /\ engine'.index_buffer[1].usage = "INDEX"
                   /\ engine'.index_count = Len(last.indices)
                   /\ device'.created = device.created + 2 * Len(Rendering)
                   /\ device'.dropped = device.dropped + 2 * (Len(Rendering) - 1)
                   /\ device'.created - device'.dropped = 2
      ]_vars

\* a build over a pure renderable and an object with different geometry: the
\* object's buffers were bound, the renderable's dropped
C9_Witness ==
    /\ op = "call_renderables"
    /\ has_vertex_buffer(engine)
    /\ device.created = 4 /\ device.dropped = 2
    /\ SelectSeq(only_renderable, DoRender) # <<>>
    /\ SelectSeq(objects, DoRender) # <<>>
    /\ SelectSeq(only_renderable, DoRender)[1].vertices # engine.vertex_buffer[1].contents
    /\ engine.vertex_buffer[1].contents = Rendering[Len(Rendering)].vertices

----------------------------------------------------------------------------
\* the frequency each update method serves
FrequencyOf(operation) ==
    CASE operation = "call_updateables_on_second" -> "OnSecond"
      [] operation = "call_updateables_on_cycle"  -> "OnCycle"

\* how often the log holds the update call <<partition, index>>
TimesCalled(log, partition, index) ==
    Cardinality({k \in 1..Len(log) : log[k] = <<partition, index>>})

\* C11: call_updateables_on_second (resp. call_updateables_on_cycle) calls
\* update exactly once on every pure updateable and every object whose update
\* frequency is OnSecond (resp. OnCycle) and never on any other entity, all
\* pure updateables before any object, and leaves the numbers of objects,
\* updateables and renderables as they were.
C11_UpdateByFrequency ==
    [][op' \in {"call_updateables_on_second", "call_updateables_on_cycle"} =>
          /\ \A i \in 1..Len(only_updateable) :
                TimesCalled(calls', "only_updateable", i) =
                    IF only_updateable[i].update_frequency = FrequencyOf(op') THEN 1 ELSE 0
          /\ \A i \in 1..Len(objects) :
                TimesCalled(calls', "objects", i) =
                    IF objects[i].update_frequency = FrequencyOf(op') THEN 1 ELSE 0
          /\ \A k \in 1..Len(calls') :
                \/ calls'[k][1] = "only_updateable" /\ calls'[k][2] \in 1..Len(only_updateable)
                \/ calls'[k][1] = "objects" /\ calls'[k][2] \in 1..Len(objects)
          /\ \A j, k \in 1..Len(calls') :
                (calls'[j][1] = "only_updateable" /\ calls'[k][1] = "objects") => j < k
          /\ Len(objects') = count_object
          /\ Len(only_updateable') = count_updateable
          /\ Len(only_renderable') = count_renderable
      ]_vars

\* call_updateables_on_cycle updated a pure updateable and then an object,
\* and passed over an OnSecond entity
C11_Witness ==
    /\ op = "call_updateables_on_cycle"
    /\ Len(calls) = 2
    /\ calls[1][1] = "only_updateable"
    /\ calls[2][1] = "objects"
    /\ \E i \in 1..Len(objects) : objects[i].update_frequency = "OnSecond"

----------------------------------------------------------------------------
(* Vocabulary of the properties of the World *)

Tagged(registry, tag) ==
    LET Has(e) == entity_configuration(e).tag = tag IN SelectSeq(registry, Has)

NotTagged(registry, tag) ==
    LET Other(e) == entity_configuration(e).tag # tag IN SelectSeq(registry, Other)

\* the batch of the replace scenario
ReplaceBatch == << Remove(<<"A">>), Spawn(<<Entity("B", "spawned")>>) >>

\* the actions the step just taken added to the pending batch
Returned == SubSeq(pass'.pending, Len(pass.pending) + 1, Len(pass'.pending))

\* C2: the registry does not change while a pass is iterating; the batch is
\* applied only when the pass has visited every entity; applying the batch
\* [Remove(["A"]), Spawn([B tagged "A"])] leaves exactly one entity tagged "A",
\* the newly spawned B, and every other entity in place; and each update of a
\* MainScene returns exactly a Remove of its own tag followed by a Spawn of
\* one new entity, after whose apply no MainScene is registered.
C2_ReplaceBatch ==
    [][ /\ (pass.pos # 0 /\ pass'.pos # 0) => entities' = entities
        /\ (pass.pos # 0 /\ pass'.pos = 0) =>
              /\ pass.pos = Len(entities) + 1
              /\ pass.pending = ReplaceBatch =>
                    /\ Tagged(entities', "A") = <<Entity("B", "spawned")>>
                    /\ NotTagged(entities', "A") = NotTagged(entities, "A")
              /\ pass.pending = MainScene_update =>
                    /\ Tagged(entities', MainScene_TAG) = <<>>
                    /\ entities' = NotTagged(entities, MainScene_TAG)
                                   \o <<Entity("Cheese", "spawned")>>
        /\ ( /\ pass.pos \in 1..Len(entities)
             /\ pass'.pos = pass.pos + 1
             /\ entities[pass.pos].kind = "MainScene" ) =>
              /\ Len(Returned) = 2
              /\ Returned[1] = Remove(<<entity_configuration(entities[pass.pos]).tag>>)
              /\ Returned[2].type = "Spawn"
              /\ Len(Returned[2].entities) = 1
              /\ Returned[2].entities[1].origin = "spawned"
      ]_vars

\* the replace batch has been applied: the registry holds the untouched Cube
\* and, as the one entity tagged "A", the spawned B
C2_Witness ==
    /\ pass.pos = 0
    /\ entities = <<Entity("Cube", "added"), Entity("B", "spawned")>>

====
